---- MODULE Spec2Model ----
(***************************************************************************)
(* Video-to-MP3 conversion API.  Two HTTP front ends are modelled:         *)
(*   "worker_js" : src/worker.js, the module worker (export default fetch) *)
(*   "part_000"  : src/unnamed/part_000, the service worker                *)
(*                 (addEventListener('fetch') -> handleRequest)            *)
(* One request is followed from its arrival to its response; each await of *)
(* an async handler is one step (specification Spec).                      *)
(* The file-based server of src/unnamed/part_000 (express, multer, ffmpeg)  *)
(* is modelled with several requests in flight over one file system        *)
(* (specification SpecExpress).                                            *)
(***************************************************************************)
EXTENDS Integers, Sequences, FiniteSets, TLC

VARIABLES variant, pc, req, form, transcoderCalls, conversion, handlersRun, resp,
          rq, disk, drawn, crashed

\* the state of the file-based server: its requests, the files on disk, the
\* random names drawn so far, and whether the process died of an uncaught exception
expressVars == <<rq, disk, drawn, crashed>>

workerVars == <<variant, pc, req, form, transcoderCalls, conversion, handlersRun, resp>>

vars == <<workerVars, expressVars>>

(***************************************************************************)
(* Bounds of the model                                                     *)
(***************************************************************************)
\* longest filename stem drawn (the stem precedes the drawn suffix)
MaxStemLen == 2
\* instants new Date() can return are 0..MaxInstant
MaxInstant == 1
\* requests the file-based server receives
MaxRequests == 2

(***************************************************************************)
(* Strings that the code indexes are sequences of UTF-16 code units.       *)
(* "U+0130" is LATIN CAPITAL LETTER I WITH DOT ABOVE, whose lower case is  *)
(* the two code units "i" "U+0307".                                        *)
(***************************************************************************)
Max(a, b) == IF a >= b THEN a ELSE b
Min(a, b) == IF a <= b THEN a ELSE b

\* String.prototype.toLowerCase on one code unit
ToLowerUnit(ch) ==
  CASE ch = "M" -> <<"m">>
    [] ch = "O" -> <<"o">>
    [] ch = "V" -> <<"v">>
    [] ch = "P" -> <<"p">>
    [] ch = "U+0130" -> <<"i", "U+0307">>
    [] OTHER -> <<ch>>

RECURSIVE toLowerCase(_)
toLowerCase(s) ==
  IF s = <<>> THEN <<>> ELSE ToLowerUnit(Head(s)) \o toLowerCase(Tail(s))

\* String.prototype.lastIndexOf(ch): 0-based index of the last ch, or -1
lastIndexOf(s, ch) ==
  LET hits == {i \in 1..Len(s) : s[i] = ch}
  IN  IF hits = {} THEN -1 ELSE (CHOOSE i \in hits : \A j \in hits : j <= i) - 1

\* String.prototype.substring(start): a negative start counts as 0
substring(s, start) ==
  LET from == Min(Max(start, 0), Len(s))
  IN  SubSeq(s, from + 1, Len(s))

\* Array.prototype.includes
includes(arr, x) == \E i \in 1..Len(arr) : arr[i] = x

\* name.replace(/\.[^/.]+$/, ''): the leftmost position where a "." is followed,
\* up to the end of the string, by one or more code units other than "/" and "."
RegexMatchAt(s, i) ==
  /\ s[i] = "."
  /\ i < Len(s)
  /\ \A j \in (i + 1)..Len(s) : s[j] \notin {"/", "."}

\* the replace done with /\..*$/: everything from the first "." is dropped
stripExtension_fromFirstDot(s) ==
  LET m == {i \in 1..Len(s) : s[i] = "."}
  IN  IF m = {} THEN s
      ELSE SubSeq(s, 1, (CHOOSE i \in m : \A j \in m : i <= j) - 1)

stripExtension(s) ==
  LET m == {i \in 1..Len(s) : RegexMatchAt(s, i)}
  IN  IF m = {} THEN s
      ELSE SubSeq(s, 1, (CHOOSE i \in m : \A j \in m : i <= j) - 1)

\* Number.prototype.toString(): decimal digits of a natural number
Digit(d) ==
  CASE d = 0 -> "0" [] d = 1 -> "1" [] d = 2 -> "2" [] d = 3 -> "3" [] d = 4 -> "4"
    [] d = 5 -> "5" [] d = 6 -> "6" [] d = 7 -> "7" [] d = 8 -> "8" [] d = 9 -> "9"

RECURSIVE toString(_)
toString(n) ==
  IF n < 10 THEN <<Digit(n)>> ELSE toString(n \div 10) \o <<Digit(n % 10)>>

(***************************************************************************)
(* Constants of the two front ends                                         *)
(***************************************************************************)
WORKER == "worker_js"
PART0 == "part_000"
Variants == {WORKER, PART0}

\* worker.js: const allowedTypes (handleConversion)
allowedTypes_worker ==
  <<"video/mp4", "video/avi", "video/mov", "video/mkv", "video/webm">>

\* part_000: const allowedTypes (handleVideoConversion)
allowedTypes_part0 ==
  <<"video/mp4", "video/avi", "video/mov", "video/wmv", "video/flv", "video/webm">>

\* worker.js: const videoExtensions (isVideoFile)
videoExtensions ==
  << <<".", "m", "p", "4">>, <<".", "a", "v", "i">>, <<".", "m", "o", "v">>,
     <<".", "m", "k", "v">>, <<".", "w", "e", "b", "m">>, <<".", "f", "l", "v">>,
     <<".", "w", "m", "v">> >>

\* 50 * 1024 * 1024, the size ceiling of both front ends
maxSize == 50 * 1024 * 1024

\* worker.js simpleVideoToMp3Conversion: header bytes and placeholder audio bytes
mp3HeaderLength == 16
audioDataLength == 1024

\* worker.js handleStatus: limits.supportedFormats
supportedFormats ==
  << <<"m", "p", "4">>, <<"a", "v", "i">>, <<"m", "o", "v">>, <<"m", "k", "v">>,
     <<"w", "e", "b", "m">> >>

\* part_000 handleStatusCheck: supported_formats
supported_formats ==
  << <<"m", "p", "4">>, <<"a", "v", "i">>, <<"m", "o", "v">>, <<"w", "m", "v">>,
     <<"f", "l", "v">>, <<"w", "e", "b", "m">> >>

(***************************************************************************)
(* Requests and parsed forms                                               *)
(***************************************************************************)
Methods == {"GET", "POST", "OPTIONS", "PUT"}
Paths == {"/", "/api/convert", "/api/status", "/api/convert/", "/convert"}

\* request.headers.get('content-type'): null when the header is absent
NoHeader == "<null>"
MULTIPART == "multipart/form-data; boundary=x"
MULTIPART_MIXED == "Multipart/Form-Data; boundary=x"
URLENCODED == "application/x-www-form-urlencoded"
ContentTypes == {NoHeader, MULTIPART, MULTIPART_MIXED, URLENCODED, "application/json"}

Requests == [method : Methods, path : Paths, contentType : ContentTypes]

RECURSIVE SeqsUpTo(_, _)
SeqsUpTo(S, n) ==
  IF n = 0 THEN {<<>>}
  ELSE LET shorter == SeqsUpTo(S, n - 1)
       IN  shorter \cup {s \o <<x>> : s \in shorter, x \in S}

StemUnits == {"c", ".", "/", "U+0130"}
Stems == SeqsUpTo(StemUnits, MaxStemLen)
Suffixes ==
  { <<>>, <<".">>, <<"m", "p", "4">>, <<".", "m", "p", "4">>, <<".", "M", "O", "V">>,
    <<".", "m", "k", "v">>, <<".", "f", "l", "v">>, <<".", "w", "m", "v">>,
    <<".", "a", "v", "i">>, <<".", "w", "e", "b", "m">>, <<".", "t", "x", "t">> }
FileNames == {st \o su : st \in Stems, su \in Suffixes}

FileTypes ==
  {"", "video/mp4", "video/avi", "video/mov", "video/mkv", "video/webm",
   "video/wmv", "video/flv", "application/octet-stream", "audio/mpeg"}
FileSizes == {0, 10, maxSize - 1, maxSize, maxSize + 1, 2 * maxSize}

Files == [kind : {"file"}, type : FileTypes, name : FileNames, size : FileSizes]
TextFields == [kind : {"text"}, value : {"", "clip.mp4"}]
Absent == [kind |-> "absent"]

Unparsed == [state |-> "unparsed"]
Parsed(entry) == [state |-> "parsed", video |-> entry]

\* Body.formData(): the forms a body with this Content-Type can parse to; the
\* promise rejects (TypeError) for other types and for a malformed body
FormDataOutcomes(contentType) ==
  CASE contentType \in {MULTIPART, MULTIPART_MIXED} ->
         [ok : {TRUE}, video : Files \cup TextFields \cup {Absent}]
           \cup {[ok |-> FALSE]}
    [] contentType = URLENCODED ->
         [ok : {TRUE}, video : TextFields \cup {Absent}]
    [] OTHER -> {[ok |-> FALSE]}

\* contentType.includes('multipart/form-data'), a case-sensitive substring test
includesMultipart(contentType) == contentType = MULTIPART

(***************************************************************************)
(* Responses                                                               *)
(***************************************************************************)
Instants == 0..MaxInstant
\* Date.prototype.toISOString()
toISOString(now) == [format |-> "ISO-8601", instant |-> now]

NoHeaders == [h \in {} |-> ""]
NoBody == [kind |-> "none"]
NoResponse == [status |-> 0, headers |-> NoHeaders, body |-> NoBody]

\* new Response(body, {status, headers}): a string body with no Content-Type
\* given is sent as text/plain
Response(body, status, headers) ==
  [status |-> status,
   headers |-> IF body.kind = "text" /\ "Content-Type" \notin DOMAIN headers
               THEN headers @@ ("Content-Type" :> "text/plain;charset=UTF-8")
               ELSE headers,
   body |-> body]

TextBody(t) == [kind |-> "text", text |-> t]
JsonBody(v) == [kind |-> "json", value |-> v]
BytesBody(n) == [kind |-> "bytes", byteLength |-> n]
NullBody == [kind |-> "null"]

\* worker.js createErrorResponse(message, status)
createErrorResponse(message, status, now) ==
  Response(JsonBody([error |-> TRUE, message |-> message,
                     timestamp |-> toISOString(now)]),
           status,
           ("Content-Type" :> "application/json")
             @@ ("Access-Control-Allow-Origin" :> "*"))

\* part_000 createResponse(data, status)
createResponse(data, status) ==
  Response(JsonBody(data), status,
           ("Content-Type" :> "application/json")
             @@ ("Access-Control-Allow-Origin" :> "*")
             @@ ("Access-Control-Allow-Methods" :> "POST, GET, OPTIONS")
             @@ ("Access-Control-Allow-Headers" :> "Content-Type"))

\* worker.js fetch: the preflight answer
preflightResponse ==
  Response(NullBody, 200,
           ("Access-Control-Allow-Origin" :> "*")
             @@ ("Access-Control-Allow-Methods" :> "GET, POST, OPTIONS")
             @@ ("Access-Control-Allow-Headers" :> "Content-Type, Authorization")
             @@ ("Access-Control-Max-Age" :> "86400"))

\* part_000 handleCORS()
handleCORS ==
  Response(NullBody, 200,
           ("Access-Control-Allow-Origin" :> "*")
             @@ ("Access-Control-Allow-Methods" :> "POST, GET, OPTIONS")
             @@ ("Access-Control-Allow-Headers" :> "Content-Type"))

\* worker.js handleStatus()
handleStatus(now) ==
  Response(JsonBody([status |-> "operational",
                     service |-> "Video to MP3 Converter",
                     version |-> "1.0.0",
                     timestamp |-> toISOString(now),
                     limits |-> [maxFileSize |-> "50MB",
                                 supportedFormats |-> supportedFormats]]),
           200,
           ("Content-Type" :> "application/json")
             @@ ("Access-Control-Allow-Origin" :> "*"))

\* part_000 handleStatusCheck(request)
handleStatusCheck(now) ==
  createResponse([status |-> "online",
                  timestamp |-> toISOString(now),
                  supported_formats |-> supported_formats,
                  max_file_size |-> "50MB"], 200)

\* new Response(getApiDocs() / getHTMLInterface(), {headers: text/html})
docsResponse ==
  Response(TextBody("<html>"), 200, ("Content-Type" :> "text/html"))

\* new Response('Not Found', {status: 404})
notFoundResponse == Response(TextBody("Not Found"), 404, NoHeaders)

(***************************************************************************)
(* Upload validation.  A message is a sequence of string fragments, so     *)
(* that 'a' + b is concatenation.                                          *)
(***************************************************************************)
\* worker.js isVideoFile(filename)
isVideoFile(filename) ==
  LET ext == substring(toLowerCase(filename), lastIndexOf(filename, "."))
  IN  includes(videoExtensions, ext)

\* worker.js: !videoFile || !(videoFile instanceof File)
noVideoFile_worker(entry) == entry.kind # "file"

\* the type check with the negation of isVideoFile dropped
invalidType_worker_unnegated(file) ==
  ~includes(allowedTypes_worker, file.type) /\ isVideoFile(file.name)

\* worker.js: !allowedTypes.includes(videoFile.type) && !isVideoFile(videoFile.name)
invalidType_worker(file) ==
  ~includes(allowedTypes_worker, file.type) /\ ~isVideoFile(file.name)

\* the size check with >= for >
tooLarge_worker_inclusive(file) == file.size >= maxSize

\* worker.js: videoFile.size > 50 * 1024 * 1024
tooLarge_worker(file) == file.size > maxSize

\* part_000: !videoFile (null, or the empty string of a text field)
noVideoFile_part0(entry) ==
  entry.kind = "absent" \/ (entry.kind = "text" /\ entry.value = "")

\* part_000: !allowedTypes.includes(videoFile.type); a string has no .type
invalidType_part0(entry) ==
  IF entry.kind = "file" THEN ~includes(allowedTypes_part0, entry.type) ELSE TRUE

\* part_000: videoFile.size > maxSize; undefined > maxSize is false
tooLarge_part0(entry) ==
  IF entry.kind = "file" THEN entry.size > maxSize ELSE FALSE

\* what the call of convertVideoToMp3 / convertVideoToMP3 has come to
NotCalled == [state |-> "notCalled"]
Pending == [state |-> "pending"]
ReturnedNull == [state |-> "null"]
ReturnedBuffer(buf) == [state |-> "buffer", mp3Buffer |-> buf]
Threw(message) == [state |-> "threw", message |-> message]

(***************************************************************************)
(* Transcoders                                                             *)
(***************************************************************************)
\* worker.js simpleVideoToMp3Conversion(videoBuffer): result.buffer
simpleVideoToMp3Conversion == [byteLength |-> mp3HeaderLength + audioDataLength]

\* part_000 convertVideoToMP3(videoFile): always rethrows after the delay
convertVideoToMP3 ==
  [threw |-> TRUE,
   message |-> <<"Conversion failed: ",
                 "Video conversion requires FFmpeg or external service integration">>]

\* the message of the TypeError a rejected formData() carries
formDataErrorMessage == <<"Unrecognized Content-Type header value.">>

\* worker.js handleConversion: the 200 response
mp3Response_worker(file, mp3Buffer) ==
  Response(BytesBody(mp3Buffer.byteLength), 200,
           ("Content-Type" :> "audio/mpeg")
             @@ ("Content-Disposition" :>
                   [type |-> "attachment",
                    filename |-> stripExtension(file.name) \o <<".", "m", "p", "3">>])
             @@ ("Access-Control-Allow-Origin" :> "*")
             @@ ("Content-Length" :> toString(mp3Buffer.byteLength)))

\* part_000 handleVideoConversion: the response built from mp3Buffer
mp3Response_part0(file, mp3Buffer) ==
  Response(BytesBody(mp3Buffer.byteLength), 200,
           ("Content-Type" :> "audio/mpeg")
             @@ ("Content-Disposition" :>
                   [type |-> "attachment",
                    filename |-> stripExtension(file.name) \o <<".", "m", "p", "3">>])
             @@ ("Access-Control-Allow-Origin" :> "*")
             @@ ("Access-Control-Allow-Methods" :> "POST, GET, OPTIONS")
             @@ ("Access-Control-Allow-Headers" :> "Content-Type"))

(***************************************************************************)
(* Routing                                                                 *)
(***************************************************************************)
\* the chain with the convert route matched by path alone
matchRoute_worker_anyMethod(method, path) ==
  IF path = "/api/convert" THEN "convert"
  ELSE IF path = "/api/status" /\ method = "GET" THEN "status"
  ELSE IF path = "/" /\ method = "GET" THEN "docs"
  ELSE "notFound"

\* worker.js fetch: the if / else-if chain after the OPTIONS check
matchRoute_worker(method, path) ==
  IF path = "/api/convert" /\ method = "POST" THEN "convert"
  ELSE IF path = "/api/status" /\ method = "GET" THEN "status"
  ELSE IF path = "/" /\ method = "GET" THEN "docs"
  ELSE "notFound"

\* part_000 handleRequest: the three ifs after the OPTIONS check
matchRoute_part0(method, path) ==
  IF path = "/api/convert" /\ method = "POST" THEN "convert"
  ELSE IF path = "/api/status" /\ method = "GET" THEN "status"
  ELSE IF path = "/" /\ method = "GET" THEN "docs"
  ELSE "notFound"

(***************************************************************************)
(* The file-based server (express): requests, paths and files              *)
(***************************************************************************)
EXPRESS == "express"
Reqs == 1..MaxRequests

\* values of crypto.randomBytes(16) (multer's file name) and of uuidv4(): each
\* request draws two, and a 128-bit random value is taken never to repeat
RandomNames == 1..(2 * MaxRequests)

\* what the client posts: the field its file is in, or no file
UploadFields == {"video", "other", "none"}

NoPath == <<>>
\* multer({ dest: 'uploads/' }): req.file.path
uploadPath(n) == <<"uploads", n>>
\* a fixed output name in place of uuidv4() + '.mp3'
outputName_fixed(u) == <<0, ".mp3">>

\* uuidv4() + '.mp3'
outputName(u) == <<u, ".mp3">>
\* path.join('output', outputName)
joinOutput(name) == <<"output">> \o name

NotArrived ==
  [pc |-> "idle",
   field |-> "none", ffmpeg |-> "none", client |-> "none",
   file |-> NoPath, inputPath |-> NoPath, outputPath |-> NoPath,
   wrote |-> FALSE, threw |-> FALSE, responses |-> <<>>]

EmptyDisk == [p \in {} |-> NoPath]
Unlinked(d, path) == [p \in DOMAIN d \ {path} |-> d[p]]
Written(d, path, content) == [p \in DOMAIN d \cup {path} |->
                                IF p = path THEN content ELSE d[p]]

ExpressIdle ==
  /\ rq = [i \in Reqs |-> NotArrived]
  /\ disk = EmptyDisk
  /\ drawn = {}
  /\ crashed = FALSE

(***************************************************************************)
(* The state machine                                                       *)
(***************************************************************************)
Init ==
  /\ variant \in Variants
  /\ pc = "idle"
  /\ req = [method |-> "GET", path |-> "/", contentType |-> NoHeader]
  /\ form = Unparsed
  /\ transcoderCalls = 0
  /\ conversion = NotCalled
  /\ handlersRun = {}
  /\ resp = NoResponse
  /\ ExpressIdle

\* a request arrives at the deployed worker
Receive ==
  /\ pc = "idle"
  /\ \E r \in Requests : req' = r
  /\ pc' = "fetch"
  /\ UNCHANGED <<variant, form, transcoderCalls, conversion, handlersRun, resp, expressVars>>

\* the runtime sends the handler's response; the request's state is discarded
Deliver ==
  /\ pc = "responded"
  /\ pc' = "idle"
  /\ req' = [method |-> "GET", path |-> "/", contentType |-> NoHeader]
  /\ form' = Unparsed
  /\ transcoderCalls' = 0
  /\ conversion' = NotCalled
  /\ handlersRun' = {}
  /\ resp' = NoResponse
  /\ UNCHANGED <<variant, expressVars>>

Respond(r) == resp' = r /\ pc' = "responded"

\* worker.js fetch, and handleConversion up to its first await
Fetch_worker ==
  /\ variant = WORKER
  /\ pc = "fetch"
  /\ \E now \in Instants :
       IF req.method = "OPTIONS"
       THEN Respond(preflightResponse) /\ UNCHANGED handlersRun
       ELSE LET route == matchRoute_worker(req.method, req.path)
            IN  CASE route = "convert" ->
                       /\ handlersRun' = {"convert"}
                       /\ IF req.contentType = NoHeader
                             \/ ~includesMultipart(req.contentType)
                          THEN Respond(createErrorResponse(
                                 <<"Content-Type must be multipart/form-data">>,
                                 400, now))
                          ELSE pc' = "formData" /\ UNCHANGED resp
                  [] route = "status" ->
                       /\ handlersRun' = {"status"}
                       /\ Respond(handleStatus(now))
                  [] route = "docs" ->
                       /\ handlersRun' = {"docs"}
                       /\ Respond(docsResponse)
                  [] OTHER ->
                       /\ Respond(notFoundResponse)
                       /\ UNCHANGED handlersRun
  /\ UNCHANGED <<variant, req, form, transcoderCalls, conversion, expressVars>>

\* worker.js handleConversion: request.formData() settles; validation; the call
\* of convertVideoToMp3, which runs up to videoFile.arrayBuffer()
FormData_worker ==
  /\ variant = WORKER
  /\ pc = "formData"
  /\ \E out \in FormDataOutcomes(req.contentType), now \in Instants :
       IF ~out.ok
       THEN /\ form' = [state |-> "threw"]
            /\ Respond(createErrorResponse(<<"Internal server error">>, 500, now))
            /\ UNCHANGED <<transcoderCalls, conversion>>
       ELSE /\ form' = Parsed(out.video)
            /\ IF noVideoFile_worker(out.video)
               THEN /\ Respond(createErrorResponse(
                                 <<"No video file provided">>, 400, now))
                    /\ UNCHANGED <<transcoderCalls, conversion>>
               ELSE IF invalidType_worker(out.video)
               THEN /\ Respond(createErrorResponse(
                                 <<"Invalid video file type">>, 400, now))
                    /\ UNCHANGED <<transcoderCalls, conversion>>
               ELSE IF tooLarge_worker(out.video)
               THEN /\ Respond(createErrorResponse(
                                 <<"File too large. Maximum size is 50MB">>, 400, now))
                    /\ UNCHANGED <<transcoderCalls, conversion>>
               ELSE /\ transcoderCalls' = transcoderCalls + 1
                    /\ conversion' = Pending
                    /\ pc' = "arrayBuffer"
                    /\ UNCHANGED resp
  /\ UNCHANGED <<variant, req, handlersRun, expressVars>>

\* worker.js convertVideoToMp3: videoFile.arrayBuffer() resolves and
\* simpleVideoToMp3Conversion is awaited
ArrayBufferResolves_worker ==
  /\ variant = WORKER
  /\ pc = "arrayBuffer"
  /\ pc' = "simpleConversion"
  /\ UNCHANGED <<variant, req, form, transcoderCalls, conversion, handlersRun, resp, expressVars>>

\* worker.js convertVideoToMp3: videoFile.arrayBuffer() rejects, the catch returns
\* null and handleConversion answers 'Conversion failed'
ArrayBufferRejects_worker ==
  /\ variant = WORKER
  /\ pc = "arrayBuffer"
  /\ \E now \in Instants :
       Respond(createErrorResponse(<<"Conversion failed">>, 500, now))
  /\ conversion' = ReturnedNull
  /\ UNCHANGED <<variant, req, form, transcoderCalls, handlersRun, expressVars>>

\* worker.js: simpleVideoToMp3Conversion resolves, convertVideoToMp3 returns the
\* buffer and handleConversion builds the 200 response
ConversionReturns_worker ==
  /\ variant = WORKER
  /\ pc = "simpleConversion"
  /\ conversion' = ReturnedBuffer(simpleVideoToMp3Conversion)
  /\ Respond(mp3Response_worker(form.video, simpleVideoToMp3Conversion))
  /\ UNCHANGED <<variant, req, form, transcoderCalls, handlersRun, expressVars>>

\* part_000 handleRequest, and handleVideoConversion up to request.formData()
HandleRequest_part0 ==
  /\ variant = PART0
  /\ pc = "fetch"
  /\ \E now \in Instants :
       IF req.method = "OPTIONS"
       THEN Respond(handleCORS) /\ UNCHANGED handlersRun
       ELSE LET route == matchRoute_part0(req.method, req.path)
            IN  CASE route = "convert" ->
                       /\ handlersRun' = {"convert"}
                       /\ pc' = "formData"
                       /\ UNCHANGED resp
                  [] route = "status" ->
                       /\ handlersRun' = {"status"}
                       /\ Respond(handleStatusCheck(now))
                  [] route = "docs" ->
                       /\ handlersRun' = {"docs"}
                       /\ Respond(docsResponse)
                  [] OTHER ->
                       /\ Respond(notFoundResponse)
                       /\ UNCHANGED handlersRun
  /\ UNCHANGED <<variant, req, form, transcoderCalls, conversion, expressVars>>

\* part_000 handleVideoConversion: request.formData() settles; validation; the
\* call of convertVideoToMP3, which runs up to its simulated delay
FormData_part0 ==
  /\ variant = PART0
  /\ pc = "formData"
  /\ \E out \in FormDataOutcomes(req.contentType) :
       IF ~out.ok
       THEN /\ form' = [state |-> "threw"]
            /\ Respond(createResponse(
                 [error |-> <<"Conversion failed: ">> \o formDataErrorMessage], 500))
            /\ UNCHANGED <<transcoderCalls, conversion>>
       ELSE /\ form' = Parsed(out.video)
            /\ IF noVideoFile_part0(out.video)
               THEN /\ Respond(createResponse(
                         [error |-> <<"No video file provided">>], 400))
                    /\ UNCHANGED <<transcoderCalls, conversion>>
               ELSE IF invalidType_part0(out.video)
               THEN /\ Respond(createResponse(
                         [error |-> <<"Invalid file type. Supported formats: MP4, AVI, MOV, WMV, FLV, WEBM">>],
                         400))
                    /\ UNCHANGED <<transcoderCalls, conversion>>
               ELSE IF tooLarge_part0(out.video)
               THEN /\ Respond(createResponse(
                         [error |-> <<"File size exceeds 50MB limit">>], 400))
                    /\ UNCHANGED <<transcoderCalls, conversion>>
               ELSE /\ transcoderCalls' = transcoderCalls + 1
                    /\ conversion' = Pending
                    /\ pc' = "delay"
                    /\ UNCHANGED resp
  /\ UNCHANGED <<variant, req, handlersRun, expressVars>>

\* part_000: the 2000 ms timer fires, convertVideoToMP3 settles and
\* handleVideoConversion answers
DelayElapsed_part0 ==
  /\ variant = PART0
  /\ pc = "delay"
  /\ LET outcome == convertVideoToMP3
     IN  IF outcome.threw
         THEN /\ conversion' = Threw(outcome.message)
              /\ Respond(createResponse(
                   [error |-> <<"Conversion failed: ">> \o outcome.message], 500))
         ELSE /\ conversion' = ReturnedBuffer(outcome.mp3Buffer)
              /\ Respond(mp3Response_part0(form.video, outcome.mp3Buffer))
  /\ UNCHANGED <<variant, req, form, transcoderCalls, handlersRun, expressVars>>

Next ==
  \/ Receive
  \/ Deliver
  \/ Fetch_worker
  \/ FormData_worker
  \/ ArrayBufferResolves_worker
  \/ ArrayBufferRejects_worker
  \/ ConversionReturns_worker
  \/ HandleRequest_part0
  \/ FormData_part0
  \/ DelayElapsed_part0

Spec == Init /\ [][Next]_vars

(***************************************************************************)
(* The file-based server: app.post('/convert', upload.single('video'), ...) *)
(***************************************************************************)
\* express's final handler: the 500 page sent for an error passed to next()
errorPage(name) ==
  [status |-> 500, kind |-> "errorPage", error |-> name, complete |-> TRUE]

\* res.status(500).send('Conversion failed')
conversionFailed ==
  [status |-> 500, kind |-> "text", text |-> "Conversion failed", complete |-> TRUE]

\* res.download(outputPath): the file's bytes as an attachment; the transfer is
\* whole unless the client goes away
downloadOf(path, content, whole) ==
  [status |-> 200, kind |-> "attachment", filename |-> Tail(path),
   content |-> content, complete |-> whole]

Send(i, r) == Append(rq[i].responses, r)

InitExpress ==
  /\ variant = EXPRESS
  /\ pc = "idle"
  /\ req = [method |-> "POST", path |-> "/convert", contentType |-> MULTIPART]
  /\ form = Unparsed
  /\ transcoderCalls = 0
  /\ conversion = NotCalled
  /\ handlersRun = {}
  /\ resp = NoResponse
  /\ ExpressIdle

\* a client posts to /convert
Post(i) ==
  /\ ~crashed
  /\ rq[i].pc = "idle"
  /\ \E f \in UploadFields :
       rq' = [rq EXCEPT ![i].field = f, ![i].pc = "multer"]
  /\ UNCHANGED <<disk, drawn, crashed, workerVars>>

\* upload.single('video'): the file of field 'video' is stored under uploads/ with
\* a random name; a file in another field is an error passed to next(); with no
\* file req.file stays undefined
Multer(i) ==
  /\ ~crashed
  /\ rq[i].pc = "multer"
  /\ CASE rq[i].field = "video" ->
            \E n \in RandomNames \ drawn :
              /\ disk' = Written(disk, uploadPath(n), [owner |-> i, kind |-> "upload"])
              /\ drawn' = drawn \cup {n}
              /\ rq' = [rq EXCEPT ![i].file = uploadPath(n), ![i].pc = "handler"]
       [] rq[i].field = "other" ->
            /\ rq' = [rq EXCEPT ![i].responses = Send(i, errorPage("MulterError")),
                                ![i].pc = "done"]
            /\ UNCHANGED <<disk, drawn>>
       [] OTHER ->
            /\ rq' = [rq EXCEPT ![i].pc = "handler"]
            /\ UNCHANGED <<disk, drawn>>
  /\ UNCHANGED <<crashed, workerVars>>

\* the route handler up to .save(outputPath): req.file.path throws a TypeError
\* when req.file is undefined, which express answers with its error page
Handler(i) ==
  /\ ~crashed
  /\ rq[i].pc = "handler"
  /\ IF rq[i].file = NoPath
     THEN /\ rq' = [rq EXCEPT ![i].threw = TRUE,
                              ![i].responses = Send(i, errorPage("TypeError")),
                              ![i].pc = "done"]
          /\ UNCHANGED drawn
     ELSE \E u \in RandomNames \ drawn :
            /\ drawn' = drawn \cup {u}
            /\ rq' = [rq EXCEPT ![i].inputPath = rq[i].file,
                                ![i].outputPath = joinOutput(outputName(u)),
                                ![i].pc = "ffmpeg"]
  /\ UNCHANGED <<disk, crashed, workerVars>>

\* ffmpeg reads the input and creates (or overwrites) the output file, whole
\* or in part
FfmpegWrites(i) ==
  /\ ~crashed
  /\ rq[i].pc = "ffmpeg"
  /\ ~rq[i].wrote
  /\ rq[i].inputPath \in DOMAIN disk
  /\ disk' = Written(disk, rq[i].outputPath,
                     [owner |-> disk[rq[i].inputPath].owner, kind |-> "mp3"])
  /\ rq' = [rq EXCEPT ![i].wrote = TRUE]
  /\ UNCHANGED <<drawn, crashed, workerVars>>

\* .on('end'): fs.unlinkSync(inputPath), then res.download(outputPath, callback);
\* an unlinkSync that throws in this event callback is an uncaught exception
FfmpegEnd(i) ==
  /\ ~crashed
  /\ rq[i].pc = "ffmpeg"
  /\ rq[i].wrote
  /\ IF rq[i].inputPath \in DOMAIN disk
     THEN /\ disk' = Unlinked(disk, rq[i].inputPath)
          /\ rq' = [rq EXCEPT ![i].ffmpeg = "end", ![i].pc = "download"]
          /\ UNCHANGED crashed
     ELSE /\ crashed' = TRUE
          /\ rq' = [rq EXCEPT ![i].ffmpeg = "end"]
          /\ UNCHANGED disk
  /\ UNCHANGED <<drawn, workerVars>>

\* .on('error'), before or after ffmpeg has written output: console.error and
\* res.status(500).send('Conversion failed')
FfmpegError(i) ==
  /\ ~crashed
  /\ rq[i].pc = "ffmpeg"
  /\ rq' = [rq EXCEPT ![i].ffmpeg = "error",
                        ![i].responses = Send(i, conversionFailed),
                        ![i].pc = "done"]
  /\ UNCHANGED <<disk, drawn, crashed, workerVars>>

\* the download's callback: fs.unlinkSync(outputPath), whatever err is
DownloadCallback(i) ==
  IF rq[i].outputPath \in DOMAIN disk
  THEN disk' = Unlinked(disk, rq[i].outputPath) /\ UNCHANGED crashed
  ELSE crashed' = TRUE /\ UNCHANGED disk

\* res.download streams the file to the client, then calls the callback
DownloadSent(i) ==
  /\ ~crashed
  /\ rq[i].pc = "download"
  /\ IF rq[i].outputPath \in DOMAIN disk
     THEN rq' = [rq EXCEPT ![i].client = "receives",
                           ![i].responses =
                             Send(i, downloadOf(rq[i].outputPath,
                                                disk[rq[i].outputPath], TRUE)),
                           ![i].pc = "done"]
     ELSE rq' = [rq EXCEPT ![i].client = "receives", ![i].pc = "done"]
  /\ DownloadCallback(i)
  /\ UNCHANGED <<drawn, workerVars>>

\* the client goes away during the transfer: the callback is called with err
DownloadAborted(i) ==
  /\ ~crashed
  /\ rq[i].pc = "download"
  /\ IF rq[i].outputPath \in DOMAIN disk
     THEN rq' = [rq EXCEPT ![i].client = "aborts",
                           ![i].responses =
                             Send(i, downloadOf(rq[i].outputPath,
                                                disk[rq[i].outputPath], FALSE)),
                           ![i].pc = "done"]
     ELSE rq' = [rq EXCEPT ![i].client = "aborts", ![i].pc = "done"]
  /\ DownloadCallback(i)
  /\ UNCHANGED <<drawn, workerVars>>

NextExpress ==
  \E i \in Reqs :
    \/ Post(i)
    \/ Multer(i)
    \/ Handler(i)
    \/ FfmpegWrites(i)
    \/ FfmpegEnd(i)
    \/ FfmpegError(i)
    \/ DownloadSent(i)
    \/ DownloadAborted(i)

SpecExpress == InitExpress /\ [][NextExpress]_vars

(***************************************************************************)
(* Vocabulary of the properties                                            *)
(***************************************************************************)
Range(arr) == {arr[i] : i \in 1..Len(arr)}
Responded == pc = "responded"
IsConvertRequest == req.method = "POST" /\ req.path = "/api/convert"
FormParsed == form.state = "parsed"
HasFile == FormParsed /\ form.video.kind = "file"

HeaderIs(name, value) ==
  name \in DOMAIN resp.headers /\ resp.headers[name] = value

\* the union of the declared types either front end allows
CanonicalMimeTypes ==
  {"video/mp4", "video/avi", "video/mov", "video/mkv", "video/webm",
   "video/wmv", "video/flv"}

\* mp4, avi, mov, mkv, webm, flv, wmv
CanonicalExtensions ==
  { <<"m", "p", "4">>, <<"a", "v", "i">>, <<"m", "o", "v">>, <<"m", "k", "v">>,
    <<"w", "e", "b", "m">>, <<"f", "l", "v">>, <<"w", "m", "v">> }

\* the extension of a filename: what follows its last ".", in lower case
HasDot(name) == \E i \in 1..Len(name) : name[i] = "."
LastDot(name) == CHOOSE i \in 1..Len(name) :
                   name[i] = "." /\ \A j \in (i + 1)..Len(name) : name[j] # "."
ExtensionOf(name) == toLowerCase(SubSeq(name, LastDot(name) + 1, Len(name)))
ExtensionAllowed(name) == HasDot(name) /\ ExtensionOf(name) \in CanonicalExtensions

\* the filename without its last extension (a non-empty run after the last "."
\* that holds no "/")
BaseName(name) ==
  IF /\ HasDot(name)
     /\ LastDot(name) < Len(name)
     /\ \A j \in (LastDot(name) + 1)..Len(name) : name[j] # "/"
  THEN SubSeq(name, 1, LastDot(name) - 1)
  ELSE name

DigitValue(ch) ==
  CASE ch = "0" -> 0 [] ch = "1" -> 1 [] ch = "2" -> 2 [] ch = "3" -> 3 [] ch = "4" -> 4
    [] ch = "5" -> 5 [] ch = "6" -> 6 [] ch = "7" -> 7 [] ch = "8" -> 8 [] ch = "9" -> 9

RECURSIVE ParseDecimal(_)
ParseDecimal(ds) ==
  IF Len(ds) = 0 THEN 0
  ELSE 10 * ParseDecimal(SubSeq(ds, 1, Len(ds) - 1)) + DigitValue(ds[Len(ds)])

IsJson == resp.body.kind = "json" /\ HeaderIs("Content-Type", "application/json")

NonEmptyMessage(m) == \E i \in 1..Len(m) : m[i] # ""

\* the text of a JSON error body: 'message' beside error: true, or the string 'error'
IsErrorBody ==
  /\ IsJson
  /\ "error" \in DOMAIN resp.body.value
  /\ IF "message" \in DOMAIN resp.body.value
     THEN resp.body.value.error = TRUE /\ NonEmptyMessage(resp.body.value.message)
     ELSE NonEmptyMessage(resp.body.value.error)
ErrorText ==
  IF "message" \in DOMAIN resp.body.value
  THEN resp.body.value.message ELSE resp.body.value.error

SizeMessages ==
  {<<"File too large. Maximum size is 50MB">>, <<"File size exceeds 50MB limit">>}

(***************************************************************************)
(* C1: every response, of every method and path (preflight, GET /, GET     *)
(* /api/status, the convert success, every 400 and 500, and the 404),      *)
(* carries Access-Control-Allow-Origin: *.                                 *)
(***************************************************************************)
C1_EveryResponseAllowsAnyOrigin ==
  Responded => HeaderIs("Access-Control-Allow-Origin", "*")

(***************************************************************************)
(* C2: an upload whose declared type is outside the allowed MIME set and   *)
(* whose filename extension is outside the allowed extensions is answered  *)
(* 400 with a validation-error JSON body, and the transcoder is not        *)
(* invoked during that request.                                            *)
(***************************************************************************)
DisallowedUpload ==
  /\ IsConvertRequest
  /\ HasFile
  /\ form.video.type \notin CanonicalMimeTypes
  /\ ~ExtensionAllowed(form.video.name)

C2_DisallowedTypeRejectedUntranscoded ==
  DisallowedUpload =>
    /\ Responded
    /\ resp.status = 400
    /\ IsErrorBody
    /\ transcoderCalls = 0
    /\ conversion = NotCalled

C2_Witness ==
  /\ variant = WORKER
  /\ DisallowedUpload
  /\ form.video.type = "application/octet-stream"
  /\ form.video.name = <<"c", ".", "t", "x", "t">>
  /\ Responded
  /\ resp.status = 400

(***************************************************************************)
(* C3: an upload of more than 50 * 1024 * 1024 bytes is answered 400       *)
(* whatever its declared type and filename are, and an upload of exactly   *)
(* 50 * 1024 * 1024 bytes is not rejected for its size.                    *)
(***************************************************************************)
SizeLimit == 50 * 1024 * 1024

C3_OversizeRejectedLimitAccepted ==
  /\ (IsConvertRequest /\ HasFile /\ form.video.size > SizeLimit) =>
       (Responded /\ resp.status = 400 /\ IsErrorBody /\ transcoderCalls = 0)
  /\ (IsConvertRequest /\ HasFile /\ form.video.size = SizeLimit /\ Responded) =>
       (resp.status = 400 => ErrorText \notin SizeMessages)

C3_Witness ==
  /\ IsConvertRequest
  /\ HasFile
  /\ form.video.size = SizeLimit + 1
  /\ form.video.type = "video/mp4"
  /\ Responded
  /\ resp.status = 400
  /\ ErrorText \in SizeMessages

(***************************************************************************)
(* C4: an upload in field 'video' of at most 50 MiB with an allowed        *)
(* declared type or an allowed filename extension passes validation and    *)
(* the transcoder is invoked exactly once during that request.             *)
(***************************************************************************)
AllowedUpload ==
  /\ IsConvertRequest
  /\ HasFile
  /\ form.video.size <= SizeLimit
  /\ (form.video.type \in CanonicalMimeTypes \/ ExtensionAllowed(form.video.name))

C4_AllowedUploadTranscodedOnce ==
  (AllowedUpload /\ Responded) => transcoderCalls = 1

(***************************************************************************)
(* C5: when the transcoder returns MP3 bytes the response is 200, of type  *)
(* audio/mpeg, an attachment named as the upload with its last extension   *)
(* replaced by .mp3, with a Content-Length equal to the body's length.     *)
(***************************************************************************)
C5_Mp3ResponseShape ==
  (Responded /\ conversion.state = "buffer") =>
    /\ resp.status = 200
    /\ HeaderIs("Content-Type", "audio/mpeg")
    /\ "Content-Disposition" \in DOMAIN resp.headers
    /\ resp.headers["Content-Disposition"].type = "attachment"
    /\ resp.headers["Content-Disposition"].filename
         = BaseName(form.video.name) \o <<".", "m", "p", "3">>
    /\ resp.body.kind = "bytes"
    /\ resp.body.byteLength = conversion.mp3Buffer.byteLength
    /\ "Content-Length" \in DOMAIN resp.headers
    /\ ParseDecimal(resp.headers["Content-Length"]) = resp.body.byteLength

C5_Witness ==
  /\ Responded
  /\ conversion.state = "buffer"
  /\ form.video.name = <<"c", ".", ".", "M", "O", "V">>
  /\ resp.headers["Content-Disposition"].filename = <<"c", ".", ".", "m", "p", "3">>
  /\ resp.headers["Content-Length"] = <<"1", "0", "4", "0">>

(***************************************************************************)
(* C6: when the transcoder fails (throws, or yields no buffer) for a       *)
(* validated upload the response is 500 with a JSON body that holds a      *)
(* non-empty 'message' and an ISO-8601 'timestamp'.                        *)
(***************************************************************************)
C6_TranscoderFailureShape ==
  (Responded /\ conversion.state \in {"null", "threw"}) =>
    /\ resp.status = 500
    /\ IsJson
    /\ "message" \in DOMAIN resp.body.value
    /\ NonEmptyMessage(resp.body.value.message)
    /\ "timestamp" \in DOMAIN resp.body.value
    /\ resp.body.value.timestamp.format = "ISO-8601"

(***************************************************************************)
(* C7: an OPTIONS request to any path is answered before path matching     *)
(* with 200, no body and the headers Access-Control-Allow-Methods,         *)
(* Access-Control-Allow-Headers and Access-Control-Max-Age: 86400, and no  *)
(* route handler runs for it.                                              *)
(***************************************************************************)
C7_PreflightShortCircuits ==
  (req.method = "OPTIONS" /\ pc \notin {"idle", "fetch"}) =>
    /\ Responded
    /\ resp.status = 200
    /\ resp.body.kind = "null"
    /\ "Access-Control-Allow-Methods" \in DOMAIN resp.headers
    /\ "Access-Control-Allow-Headers" \in DOMAIN resp.headers
    /\ HeaderIs("Access-Control-Max-Age", "86400")
    /\ handlersRun = {}

(***************************************************************************)
(* C8: the router maps every (method, path) to exactly one outcome: POST   *)
(* /api/convert to the convert handler, GET /api/status to the status      *)
(* handler, GET / to the docs page, and every other pair that is not       *)
(* OPTIONS to a 404; no pair reaches two handlers.                         *)
(***************************************************************************)
ExpectedHandlers(method, path) ==
  (IF method = "POST" /\ path = "/api/convert" THEN {"convert"} ELSE {})
    \cup (IF method = "GET" /\ path = "/api/status" THEN {"status"} ELSE {})
    \cup (IF method = "GET" /\ path = "/" THEN {"docs"} ELSE {})

C8_RouterTotalAndExclusive ==
  /\ Cardinality(handlersRun) <= 1
  /\ (pc \notin {"idle", "fetch"} /\ req.method # "OPTIONS") =>
       /\ handlersRun = ExpectedHandlers(req.method, req.path)
       /\ handlersRun = {} => (Responded /\ resp.status = 404)
       /\ (Responded /\ resp.status = 404) => handlersRun = {}
       /\ handlersRun = {"docs"} =>
            (Responded /\ resp.status = 200 /\ HeaderIs("Content-Type", "text/html"))
       /\ handlersRun = {"status"} => (Responded /\ resp.status = 200 /\ IsJson)

C8_Witness ==
  /\ Responded
  /\ req.method = "GET"
  /\ req.path = "/api/convert"
  /\ resp.status = 404
  /\ handlersRun = {}

(***************************************************************************)
(* C9: a convert request whose form has no 'video' field, or whose 'video' *)
(* field is not a file, is answered 400 with the JSON body {error: true,   *)
(* message: "No video file provided", timestamp}, before any other         *)
(* validation outcome.                                                     *)
(***************************************************************************)
C9_MissingFileReported ==
  (IsConvertRequest /\ FormParsed /\ form.video.kind # "file") =>
    /\ Responded
    /\ resp.status = 400
    /\ IsJson
    /\ DOMAIN resp.body.value = {"error", "message", "timestamp"}
    /\ resp.body.value.error = TRUE
    /\ resp.body.value.message = <<"No video file provided">>
    /\ resp.body.value.timestamp.format = "ISO-8601"

(***************************************************************************)
(* C10: GET /api/status answers 200 with a JSON body whose supportedFormats*)
(* (or supported_formats) equals the extension list mp4, avi, mov, mkv,    *)
(* webm, flv, wmv that the upload validator accepts, and whose maxFileSize *)
(* is "50MB".                                                              *)
(***************************************************************************)
StatusFormats ==
  LET v == resp.body.value
  IN  IF "limits" \in DOMAIN v THEN Range(v.limits.supportedFormats)
      ELSE IF "supported_formats" \in DOMAIN v THEN Range(v.supported_formats)
      ELSE {}
StatusMaxFileSize ==
  LET v == resp.body.value
  IN  IF "limits" \in DOMAIN v THEN v.limits.maxFileSize
      ELSE IF "maxFileSize" \in DOMAIN v THEN v.maxFileSize
      ELSE IF "max_file_size" \in DOMAIN v THEN v.max_file_size
      ELSE ""

C10_StatusReportsValidatorLimits ==
  (Responded /\ req.method = "GET" /\ req.path = "/api/status") =>
    /\ resp.status = 200
    /\ IsJson
    /\ StatusFormats = CanonicalExtensions
    /\ CanonicalExtensions = {Tail(e) : e \in Range(videoExtensions)}
    /\ StatusMaxFileSize = "50MB"

(***************************************************************************)
(* C11: in the file-based /convert handler every temporary artifact of a   *)
(* request (its upload under uploads/ and its MP3 under output/) is        *)
(* deleted on every exit path: conversion success, conversion error, and   *)
(* failure while sending the download.  Stated at the request's end: once  *)
(* the request is done, neither file is on disk.                           *)
(***************************************************************************)
ArtifactsGone(i) ==
  /\ rq[i].file \notin DOMAIN disk
  /\ rq[i].outputPath \notin DOMAIN disk

C11_ArtifactsDeletedOnEveryExit ==
  \A i \in Reqs : rq[i].pc = "done" => ArtifactsGone(i)

(***************************************************************************)
(* C12: the validator decides the type check from the effective media      *)
(* type: the declared type whenever it is not empty, the filename          *)
(* extension only when the declared type is empty or missing; so a         *)
(* non-empty declared type outside the allowed MIME set is rejected with   *)
(* 400 even if the filename ends in an allowed video extension.            *)
(***************************************************************************)
TypeMessages ==
  {<<"Invalid video file type">>,
   <<"Invalid file type. Supported formats: MP4, AVI, MOV, WMV, FLV, WEBM">>}

RejectedForType ==
  Responded /\ resp.status = 400 /\ IsErrorBody /\ ErrorText \in TypeMessages

C12_EffectiveTypeDecides ==
  (IsConvertRequest /\ HasFile /\ Responded) =>
    /\ (form.video.type # "" /\ form.video.type \notin CanonicalMimeTypes) =>
         (resp.status = 400 /\ transcoderCalls = 0)
    /\ (form.video.type = "" /\ ExtensionAllowed(form.video.name)) =>
         ~RejectedForType

(***************************************************************************)
(* C13: every convert request ends with exactly one complete response,     *)
(* whatever the form parser and the transcoder do: the handler neither     *)
(* lets an exception out nor sends a second response, and the outcome is   *)
(* the 200 MP3 response or a 400 / 500 error response.  (A client that     *)
(* goes away during the download is left out: no response can reach it.)   *)
(***************************************************************************)
C13_ExactlyOneCompleteResponse ==
  \A i \in Reqs :
    /\ Len(rq[i].responses) <= 1
    /\ (rq[i].pc = "done" /\ rq[i].client # "aborts") =>
         /\ ~rq[i].threw
         /\ Len(rq[i].responses) = 1
         /\ rq[i].responses[1].complete
         /\ rq[i].responses[1].status \in {200, 400, 500}
         /\ rq[i].responses[1].status = 200 => rq[i].responses[1].kind = "attachment"

\* the same for the two workers, whose handlers wrap everything in try / catch:
\* a convert request that is under way can always take a step, and its one
\* response is 200, 400 or 500
C13_WorkersAnswerOnce ==
  /\ (IsConvertRequest /\ pc \in {"fetch", "formData", "arrayBuffer",
                                  "simpleConversion", "delay"}) =>
       (resp = NoResponse /\ ENABLED Next)
  /\ (IsConvertRequest /\ Responded) => resp.status \in {200, 400, 500}

(***************************************************************************)
(* C14: concurrent convert requests are independent under every            *)
(* interleaving: two requests in flight never share an input or output     *)
(* path, no request's cleanup deletes a file another request in flight     *)
(* still needs, and each request's response is the one it would get alone. *)
(***************************************************************************)
InFlight(i) == rq[i].pc \in {"handler", "ffmpeg", "download"}

PathsOf(i) == {rq[i].file, rq[i].inputPath, rq[i].outputPath} \ {NoPath}

\* the file a request in flight still needs is on disk and holds its own bytes
NeedsMet(i) ==
  /\ (rq[i].pc = "handler" /\ rq[i].file # NoPath) =>
       (rq[i].file \in DOMAIN disk /\ disk[rq[i].file].owner = i)
  /\ rq[i].pc = "ffmpeg" =>
       (rq[i].inputPath \in DOMAIN disk /\ disk[rq[i].inputPath].owner = i)
  /\ ((rq[i].pc = "ffmpeg" /\ rq[i].wrote) \/ rq[i].pc = "download") =>
       (rq[i].outputPath \in DOMAIN disk /\ disk[rq[i].outputPath].owner = i)

\* what the request is answered when it runs alone, given what its client posted,
\* what ffmpeg came to and whether the client stayed
AloneResponses(i) ==
  CASE rq[i].field = "other" ->
         <<[status |-> 500, kind |-> "errorPage", error |-> "MulterError",
            complete |-> TRUE]>>
    [] rq[i].field = "none" ->
         <<[status |-> 500, kind |-> "errorPage", error |-> "TypeError",
            complete |-> TRUE]>>
    [] rq[i].field = "video" /\ rq[i].ffmpeg = "error" ->
         <<[status |-> 500, kind |-> "text", text |-> "Conversion failed",
            complete |-> TRUE]>>
    [] OTHER ->
         <<[status |-> 200, kind |-> "attachment",
            filename |-> Tail(rq[i].outputPath),
            content |-> [owner |-> i, kind |-> "mp3"],
            complete |-> (rq[i].client = "receives")]>>

C14_ConcurrentRequestsIndependent ==
  /\ ~crashed
  /\ \A i, j \in Reqs :
       (i # j /\ InFlight(i) /\ InFlight(j)) => PathsOf(i) \cap PathsOf(j) = {}
  /\ \A i \in Reqs : NeedsMet(i)
  /\ \A i \in Reqs : rq[i].pc = "done" => rq[i].responses = AloneResponses(i)

C14_Witness ==
  /\ rq[1].pc = "done"
  /\ rq[1].ffmpeg = "end"
  /\ rq[1].client = "receives"
  /\ rq[1].responses[1].status = 200
  /\ rq[2].pc = "download"
  /\ rq[2].outputPath \in DOMAIN disk
  /\ rq[1].outputPath \notin DOMAIN disk

====
